---- MODULE Spec2Model ----
(***************************************************************************)
(* Model of ydk/services/codec_service.py: the CodecService adapter        *)
(* (encode, _encode, decode, _decode, _get_top_entity) and the module      *)
(* level helpers (_get_ns_ename, _get_yang_path, _get_bundle_name).        *)
(*                                                                         *)
(* Text (a payload's root tag, a JSON key) is a sequence of tokens; the    *)
(* delimiter characters ':', '{' and '}' are tokens of their own, so that  *)
(* str.split / str.rsplit / str.strip are modelled by what they do.        *)
(* Python >= 3.7 is assumed: a dict iterates in insertion order and        *)
(* _get_string is the identity.                                            *)
(* The arguments are never None, so the _check_argument decorator passes   *)
(* every call on; the values of a dict are payloads and entities, not      *)
(* dicts, so the recursive self.decode of line 119 is one _decode.         *)
(***************************************************************************)
EXTENDS Integers, Sequences, FiniteSets, TLC

\* ---------------------------------------------------------------- bounds
\* most top-level containers a payload holds
MaxTops == 2
\* most API calls (encode / decode) made in one process
MaxCalls == 2

\* ------------------------------------------------- the installed packages
\* pkgutil.iter_modules(ydk_models.__path__): (name, ispkg) in listing order
InstalledModules ==
  << [name |-> "pkgA", ispkg |-> TRUE],
     [name |-> "util", ispkg |-> FALSE],
     [name |-> "pkgB", ispkg |-> TRUE] >>

PackageNames == {"pkgA", "pkgB"}

\* the top-level model types: the owning package, the namespace, the name
Types ==
  { [pkg |-> "pkgA", ns |-> "a", name |-> "x"],
    [pkg |-> "pkgA", ns |-> "b", name |-> "y"],
    [pkg |-> "pkgB", ns |-> "c", name |-> "z"] }

\* <pkg>._yang_ns.BUNDLE_NAME
BUNDLE_NAME(pkg) == IF pkg = "pkgA" THEN "bundleA" ELSE "bundleB"

BundleNames == {BUNDLE_NAME(p) : p \in PackageNames}

\* The heap of entity objects.  The prototypes that the ENTITY_LOOKUP tables
\* hold are objects 1..3; every clone_ptr() appends a new object.
ProtoRef(t) ==
  IF t.ns = "a" THEN 1 ELSE IF t.ns = "b" THEN 2 ELSE 3

ProtoRefs == {ProtoRef(t) : t \in Types}

InitHeap ==
  [r \in 1..3 |->
     [type |-> (CHOOSE t \in Types : ProtoRef(t) = r), val |-> "unset"]]

\* <pkg>._yang_ns.ENTITY_LOOKUP: the keys (ns, ename) of one package
ENTITY_LOOKUP_KEYS(pkg) == {<< <<t.ns>>, <<t.name>> >> : t \in {u \in Types : u.pkg = pkg}}

\* ENTITY_LOOKUP[ns_ename] of package pkg: the prototype object
ENTITY_LOOKUP(pkg, key) ==
  ProtoRef(CHOOSE t \in Types : t.pkg = pkg /\ <<t.ns>> = key[1] /\ <<t.name>> = key[2])

\* ------------------------------------------------------------------ text
\* index of the first occurrence of token d in s, 0 when there is none
RECURSIVE Find(_, _, _)
Find(s, d, i) ==
  IF i > Len(s) THEN 0
  ELSE IF s[i] = d THEN i ELSE Find(s, d, i + 1)

\* str.split(sep) and str.rsplit(sep) with no maxsplit: cut at every separator
RECURSIVE Split(_, _)
Split(s, d) ==
  LET i == Find(s, d, 1) IN
  IF i = 0 THEN <<s>>
  ELSE <<SubSeq(s, 1, i - 1)>> \o Split(SubSeq(s, i + 1, Len(s)), d)

\* str.strip(chars) with one character: drop it from both ends
RECURSIVE Strip(_, _)
Strip(s, c) ==
  IF Len(s) = 0 THEN s
  ELSE IF s[1] = c THEN Strip(Tail(s), c)
  ELSE IF s[Len(s)] = c THEN Strip(SubSeq(s, 1, Len(s) - 1), c)
  ELSE s

\* --------------------------------------------------------------- payloads
Encodings == {"XML", "JSON"}

\* the text of a top-level container of type t: the ElementTree tag
\* "{ns}name" of its XML root element, the member name "ns:name" in JSON
TopText(t, encoding) ==
  IF encoding = "XML" THEN <<"{", t.ns, "}", t.name>>
  ELSE <<t.ns, ":", t.name>>

\* The top-level texts payloads are built from: the installed types, a type of
\* no installed package, and one text the sniff cannot cut in two (an XML root
\* element without namespace, a JSON member name with two colons).
TopTexts(encoding) ==
  {TopText(t, encoding) : t \in Types}
  \cup {TopText([ns |-> "d", name |-> "w"], encoding)}
  \cup (IF encoding = "XML" THEN {<<"x">>} ELSE {<<"a", ":", "x", ":", "y">>})

\* what the containers hold: a value, content the schema rejects, or content
\* the entity mapper cannot map
Contents == {"v1", "v2", "invalid", "unmappable"}

RECURSIVE SeqsUpTo(_, _)
SeqsUpTo(S, n) ==
  IF n = 0 THEN {<<>>}
  ELSE LET shorter == SeqsUpTo(S, n - 1) IN
       shorter \cup {Append(s, x) : s \in {q \in shorter : Len(q) = n - 1}, x \in S}

NoDup(s) == \A i, j \in 1..Len(s) : i # j => s[i] # s[j]

\* the payloads of one encoding: the top-level containers in document order
\* (member names of a JSON object are distinct), and their content
Payloads(encoding) ==
  {[tops |-> ts, content |-> c, pretty |-> FALSE] :
     ts \in {s \in SeqsUpTo(TopTexts(encoding), MaxTops) : NoDup(s)}, c \in Contents}

\* the application's model objects handed to encode: a type and its content
Entities == {[type |-> t, val |-> c] : t \in Types, c \in Contents}

\* ------------------------------------------------------------- exceptions
NoExc == [type |-> "None", msg |-> <<>>]

Raise(m, type, msg) == [m EXCEPT !.exc = [type |-> type, msg |-> msg]]

Raised(m) == m.exc.type # "None"

\* sequencing of statements: evaluate v once, then go on with F of its value
Bind(v, F(_)) == CHOOSE r \in {F(x) : x \in {v}} : TRUE

\* record one call in the trace of the running API call
Call(m, name) == [m EXCEPT !.trace = Append(@, name)]

\* ---------------------------------------------------------- collaborators
\* importlib.import_module of <pkg>._yang_ns: a module already in
\* sys.modules is returned, any other is loaded and entered
import_module(m, pkg) ==
  Bind(m, LAMBDA m0 :
    IF pkg \in m0.sysModules THEN m0
    ELSE [m0 EXCEPT !.sysModules = @ \cup {pkg}, !.loads[pkg] = @ + 1])

\* provider.initialize(bundle_name, path): idempotent set-up of one bundle
provider_initialize(m, bundle_name) ==
  [Call(m, "initialize") EXCEPT !.provider.schemas = @ \cup {bundle_name}]

\* provider.get_root_schema(bundle_name): the schema handle of the bundle
provider_get_root_schema(m, bundle_name) ==
  [Call(m, "get_root_schema") EXCEPT !.ret = bundle_name]

\* the top-level containers the schema of a bundle declares
SchemaTops(root_schema, encoding) ==
  {TopText(t, encoding) : t \in {u \in Types : BUNDLE_NAME(u.pkg) = root_schema}}

\* ydk.path.CodecService.decode(root_schema, payload, encoding): the root
\* data node, whose children are the payload's top-level containers
engine_decode(m, root_schema, payload, encoding) ==
  LET m1 == Call(m, "engine_decode") IN
  IF payload.content = "invalid" THEN Raise(m1, "EngineError", <<"invalid">>)
  ELSE IF \E i \in 1..Len(payload.tops) :
            payload.tops[i] \notin SchemaTops(root_schema, encoding)
  THEN Raise(m1, "EngineError", <<"unknown">>)
  ELSE [m1 EXCEPT !.ret =
          [i \in 1..Len(payload.tops) |->
             [text |-> payload.tops[i], content |-> payload.content]]]

\* ydk.entity_utils.get_entity_from_data_node(data_node, entity): populate
\* the entity object from the data node
get_entity_from_data_node(m, data_node, entity) ==
  LET m1 == [Call(m, "get_entity_from_data_node")
               EXCEPT !.mapped = Append(@, [node |-> data_node, entity |-> entity])]
  IN
  IF data_node.content = "unmappable"
  THEN Raise(m1, "EngineError", <<"unmappable">>)
  ELSE [m1 EXCEPT !.heap[entity].val = data_node.content]

\* ydk.entity_utils.get_data_node_from_entity(entity, root_schema)
get_data_node_from_entity(m, entity, root_schema, encoding) ==
  LET m1 == Call(m, "get_data_node_from_entity") IN
  IF entity.val = "unmappable"
  THEN Raise(m1, "EngineError", <<"unmappable">>)
  ELSE [m1 EXCEPT !.ret =
          [text |-> TopText(entity.type, encoding), content |-> entity.val]]

\* ydk.path.CodecService.encode(data_node, encoding, pretty)
engine_encode(m, data_node, encoding, pretty) ==
  LET m1 == Call(m, "engine_encode") IN
  IF data_node.content = "invalid"
  THEN Raise(m1, "EngineError", <<"invalid">>)
  ELSE [m1 EXCEPT !.ret =
          [tops |-> <<data_node.text>>, content |-> data_node.content,
           pretty |-> pretty]]

\* ydk.errors.error_handler.handle_runtime_error: an engine error leaving
\* the with-block is re-raised as the service error with its diagnostic
handle_error(m) ==
  Bind(m, LAMBDA m0 :
    IF m0.exc.type = "EngineError" THEN Raise(m0, "YPYError", m0.exc.msg) ELSE m0)

\* ----------------------------------------------------- module-level helpers
\* str.split(sep, 1): cut at the first separator only
SplitFirst(s, d) ==
  LET i == Find(s, d, 1) IN
  IF i = 0 THEN <<s>>
  ELSE <<SubSeq(s, 1, i - 1), SubSeq(s, i + 1, Len(s))>>

\* a variant of _get_ns_ename: the JSON key is cut with split(':', 1)
_get_ns_ename_maxsplit(payload, encoding) ==
  IF encoding = "XML" THEN
    IF Len(payload.tops) # 1
    THEN [exc |-> [type |-> "ParseError", msg |-> <<>>], ns |-> <<>>, ename |-> <<>>]
    ELSE LET parts == Split(payload.tops[1], "}") IN
         IF Len(parts) # 2
         THEN [exc |-> [type |-> "ValueError", msg |-> <<>>], ns |-> <<>>, ename |-> <<>>]
         ELSE [exc |-> NoExc, ns |-> Strip(parts[1], "{"), ename |-> parts[2]]
  ELSE
    IF Len(payload.tops) = 0
    THEN [exc |-> [type |-> "IndexError", msg |-> <<>>], ns |-> <<>>, ename |-> <<>>]
    ELSE LET parts == SplitFirst(payload.tops[1], ":") IN
         IF Len(parts) # 2
         THEN [exc |-> [type |-> "ValueError", msg |-> <<>>], ns |-> <<>>, ename |-> <<>>]
         ELSE [exc |-> NoExc, ns |-> parts[1], ename |-> parts[2]]

\* _get_ns_ename(payload, encoding): [exc, ns, ename]
_get_ns_ename(payload, encoding) ==
  IF encoding = "XML" THEN
    \* xml.etree.ElementTree.fromstring: a document has one root element
    IF Len(payload.tops) # 1
    THEN [exc |-> [type |-> "ParseError", msg |-> <<>>], ns |-> <<>>, ename |-> <<>>]
    ELSE LET parts == Split(payload.tops[1], "}") IN
         IF Len(parts) # 2
         THEN [exc |-> [type |-> "ValueError", msg |-> <<>>], ns |-> <<>>, ename |-> <<>>]
         ELSE [exc |-> NoExc, ns |-> Strip(parts[1], "{"), ename |-> parts[2]]
  ELSE
    \* keys = list(json.loads(payload).keys()); keys[0]
    IF Len(payload.tops) = 0
    THEN [exc |-> [type |-> "IndexError", msg |-> <<>>], ns |-> <<>>, ename |-> <<>>]
    ELSE LET parts == Split(payload.tops[1], ":") IN
         IF Len(parts) # 2
         THEN [exc |-> [type |-> "ValueError", msg |-> <<>>], ns |-> <<>>, ename |-> <<>>]
         ELSE [exc |-> NoExc, ns |-> parts[1], ename |-> parts[2]]

\* _get_yang_path(entity): imports the entity's package, which the entity's
\* class already loaded, and joins its path with '_yang'
_get_yang_path(m, entity_type) ==
  [Call(m, "get_yang_path") EXCEPT !.ret = <<entity_type.pkg, "_yang">>]

\* _get_bundle_name(entity): BUNDLE_NAME of the entity's <pkg>._yang_ns
_get_bundle_name(m, entity_type) ==
  [import_module(Call(m, "get_bundle_name"), entity_type.pkg)
     EXCEPT !.ret = BUNDLE_NAME(entity_type.pkg)]

\* ----------------------------------------------------------- CodecService
\* entity_lookup[ns_ename].clone_ptr(): a new object with the prototype's
\* contents; the reference to it is returned
clone_ptr(m, proto) ==
  Bind(m, LAMBDA m0 :
    [m0 EXCEPT !.heap = Append(@, m0.heap[proto]), !.ret = Len(m0.heap) + 1])

\* a variant of LookupHit: the registered prototype itself is returned
LookupHitShared(m, proto) == [m EXCEPT !.ret = proto]

\* the return of _get_top_entity on a hit: entity_lookup[ns_ename].clone_ptr()
LookupHit(m, proto) == clone_ptr(m, proto)

\* pkgutil.iter_modules(ydk_models.__path__): one enumeration of the
\* installed modules
iter_modules(m) == [m EXCEPT !.scans = @ + 1]

\* the for-loop of _get_top_entity from the i-th listed module on; falling
\* off the end reads the name ename, which _get_top_entity never binds
RECURSIVE ScanModules(_, _, _)
ScanModules(m, i, ns_ename) ==
  IF i > Len(InstalledModules)
  THEN Raise(m, "NameError", <<"ename">>)
  ELSE LET mod == InstalledModules[i] IN
       IF ~mod.ispkg THEN ScanModules(m, i + 1, ns_ename)
       ELSE Bind(import_module(m, mod.name), LAMBDA m1 :
              IF ns_ename \in ENTITY_LOOKUP_KEYS(mod.name)
              THEN LookupHit(m1, ENTITY_LOOKUP(mod.name, ns_ename))
              ELSE ScanModules(m1, i + 1, ns_ename))

\* a variant of _get_top_entity: the packages are enumerated by the first
\* lookup of the process only
_get_top_entity_scan_once(m, payload, encoding) ==
  LET sniff == _get_ns_ename(payload, encoding)
      m1 == Call(m, "sniff")
  IN
  IF sniff.exc.type # "None" THEN [m1 EXCEPT !.exc = sniff.exc]
  ELSE LET ns_ename == <<sniff.ns, sniff.ename>>
           m2 == [Call(m1, "lookup") EXCEPT !.lookups = @ + 1,
                                            !.ns_ename = ns_ename]
       IN
       ScanModules(IF m.lookups = 0 THEN iter_modules(m2) ELSE m2, 1, ns_ename)

\* CodecService._get_top_entity(payload, encoding)
_get_top_entity(m, payload, encoding) ==
  LET sniff == _get_ns_ename(payload, encoding)
      m1 == Call(m, "sniff")
  IN
  IF sniff.exc.type # "None" THEN [m1 EXCEPT !.exc = sniff.exc]
  ELSE LET ns_ename == <<sniff.ns, sniff.ename>> IN
       ScanModules(iter_modules([Call(m1, "lookup") EXCEPT !.lookups = @ + 1,
                                                           !.ns_ename = ns_ename]),
                   1, ns_ename)

\* a variant of CheckAndMap: the children are mapped before they are counted
CheckAndMapEager(m, entity) ==
  Bind(m, LAMBDA m0 :
    LET children == m0.ret IN
    IF Len(children) = 0
    THEN Raise(Call(m0, "check"), "YPYServiceProviderError", <<"_PAYLOAD_ERROR_MSG">>)
    ELSE Bind(get_entity_from_data_node(m0, children[1], entity), LAMBDA m2 :
           IF Raised(m2) THEN m2
           ELSE IF Len(children) # 1
           THEN Raise(Call(m2, "check"), "YPYServiceProviderError",
                      <<"_PAYLOAD_ERROR_MSG">>)
           ELSE [Call(m2, "check") EXCEPT !.ret = entity]))

\* the part of _decode after the engine decode: the child-count check and
\* the mapping of the one child into the entity
CheckAndMap(m, entity) ==
  Bind(m, LAMBDA m0 :
    LET children == m0.ret
        m1 == Call(m0, "check")
    IN
    IF Len(children) # 1
    THEN Raise(m1, "YPYServiceProviderError", <<"_PAYLOAD_ERROR_MSG">>)
    ELSE Bind(get_entity_from_data_node(m1, children[1], entity), LAMBDA m2 :
           IF Raised(m2) THEN m2 ELSE [m2 EXCEPT !.ret = entity]))

\* a variant of _decode: the provider is initialized only once the payload
\* has passed the child-count check
_decode_late_init(m, payload) ==
  Bind(_get_top_entity(m, payload, m.provider.encoding), LAMBDA m1 :
    IF Raised(m1) THEN m1
    ELSE
      LET encoding == m1.provider.encoding
          entity == m1.ret
          entity_type == m1.heap[entity].type
      IN
      Bind(_get_bundle_name(m1, entity_type), LAMBDA m2 :
        LET bundle_name == m2.ret IN
        Bind(provider_get_root_schema(
               Call(_get_yang_path(m2, entity_type), "initialize"),
               bundle_name), LAMBDA m4 :
          Bind(engine_decode(m4, m4.ret, payload, encoding), LAMBDA m5 :
            IF Raised(m5) THEN m5
            ELSE Bind(CheckAndMap(m5, entity), LAMBDA m6 :
                   IF Raised(m6) THEN m6
                   ELSE [m6 EXCEPT !.provider.schemas = @ \cup {bundle_name}])))))

\* CodecService._decode(provider, payload)
_decode(m, payload) ==
  Bind(_get_top_entity(m, payload, m.provider.encoding), LAMBDA m1 :
    IF Raised(m1) THEN m1
    ELSE
      LET encoding == m1.provider.encoding
          entity == m1.ret
          entity_type == m1.heap[entity].type
      IN
      Bind(_get_bundle_name(m1, entity_type), LAMBDA m2 :
        LET bundle_name == m2.ret IN
        Bind(provider_get_root_schema(
               provider_initialize(_get_yang_path(m2, entity_type), bundle_name),
               bundle_name), LAMBDA m4 :
          Bind(engine_decode(m4, m4.ret, payload, encoding), LAMBDA m5 :
            IF Raised(m5) THEN m5 ELSE CheckAndMap(m5, entity)))))

\* a variant of DecodeLoop: a key whose decode fails is skipped, and the
\* entities of the other keys are returned
RECURSIVE DecodeLoopCollect(_, _, _, _)
DecodeLoopCollect(m, holder, i, entities) ==
  IF i > Len(holder) THEN [m EXCEPT !.ret = entities]
  ELSE Bind(_decode([m EXCEPT !.processed = Append(@, holder[i].key)],
                    holder[i].value), LAMBDA m1 :
         IF Raised(m1)
         THEN DecodeLoopCollect([m1 EXCEPT !.exc = NoExc], holder, i + 1, entities)
         ELSE DecodeLoopCollect(m1, holder, i + 1,
                                (holder[i].key :> m1.ret) @@ entities))

\* the for-loop of decode over a dict, from the i-th key on; holder is the
\* dict as the sequence of its (key, value) items in iteration order
RECURSIVE DecodeLoop(_, _, _, _)
DecodeLoop(m, holder, i, entities) ==
  IF i > Len(holder) THEN [m EXCEPT !.ret = entities]
  ELSE Bind(_decode([m EXCEPT !.processed = Append(@, holder[i].key)],
                    holder[i].value), LAMBDA m1 :
         IF Raised(m1) THEN m1
         ELSE DecodeLoop(m1, holder, i + 1,
                         (holder[i].key :> m1.ret) @@ entities))

\* CodecService.decode(provider, payload_holder) for a dict
decode_dict(m, holder) == DecodeLoop(m, holder, 1, <<>>)

\* CodecService._encode(provider, entity, pretty)
_encode(m, entity, pretty) ==
  Bind(_get_bundle_name(m, entity.type), LAMBDA m1 :
    LET bundle_name == m1.ret
        encoding == m1.provider.encoding
    IN
    Bind(provider_get_root_schema(
           provider_initialize(_get_yang_path(m1, entity.type), bundle_name),
           bundle_name), LAMBDA m3 :
      Bind(get_data_node_from_entity(m3, entity, m3.ret, encoding), LAMBDA m4 :
        IF Raised(m4) THEN handle_error(m4)
        ELSE Bind(engine_encode(m4, m4.ret, encoding, pretty), LAMBDA m5 :
               handle_error(m5)))))

\* a variant of EncodeLoop: every key gets the payload of the first entity
RECURSIVE EncodeLoopFirst(_, _, _, _, _)
EncodeLoopFirst(m, holder, pretty, i, payload_map) ==
  IF i > Len(holder) THEN [m EXCEPT !.ret = payload_map]
  ELSE Bind(_encode([m EXCEPT !.processed = Append(@, holder[i].key)],
                    holder[1].value, pretty), LAMBDA m1 :
         IF Raised(m1) THEN m1
         ELSE EncodeLoopFirst(m1, holder, pretty, i + 1,
                              (holder[i].key :> m1.ret) @@ payload_map))

\* the for-loop of encode over a dict, from the i-th key on
RECURSIVE EncodeLoop(_, _, _, _, _)
EncodeLoop(m, holder, pretty, i, payload_map) ==
  IF i > Len(holder) THEN [m EXCEPT !.ret = payload_map]
  ELSE Bind(_encode([m EXCEPT !.processed = Append(@, holder[i].key)],
                    holder[i].value, pretty), LAMBDA m1 :
         IF Raised(m1) THEN m1
         ELSE EncodeLoop(m1, holder, pretty, i + 1,
                         (holder[i].key :> m1.ret) @@ payload_map))

\* CodecService.encode(provider, entity_holder, pretty) for a dict
encode_dict(m, holder, pretty) == EncodeLoop(m, holder, pretty, 1, <<>>)

\* ------------------------------------------------------------------ state
VARIABLES
  provider,    \* the CodecServiceProvider: its encoding, its initialized bundles
  sysModules,  \* sys.modules: the <pkg>._yang_ns modules imported so far
  loads,       \* how often each <pkg>._yang_ns module has been loaded
  heap,        \* the entity objects: prototypes and clones
  scans,       \* how often pkgutil.iter_modules has enumerated the packages
  lookups,     \* how often _get_top_entity has searched the lookup tables
  handed,      \* the entities decode has returned, each with its content then
  calls,       \* the API calls made so far
  pc,          \* "idle", or "returned" while the caller holds the last outcome
  last         \* the API call that has just returned or raised

vars == <<provider, sysModules, loads, heap, scans, lookups, handed, calls, pc, last>>

NoCall ==
  [op |-> "none", arg |-> <<>>, pretty |-> FALSE, exc |-> NoExc, ret |-> <<>>,
   trace |-> <<>>, processed |-> <<>>, ns_ename |-> <<>>, mapped |-> <<>>,
   before |-> <<>>]

\* the keys of the dicts handed to encode and decode
HolderKeys == {"k1", "k2"}

\* the dicts over HolderKeys with values in S, as their items in iteration order
Holders(S) ==
  {h \in SeqsUpTo([key : HolderKeys, value : S], Cardinality(HolderKeys)) :
     \A i, j \in 1..Len(h) : i # j => h[i].key # h[j].key}

\* the payloads decode is called with, for each encoding of the provider
DecodeInputs == [e \in Encodings |-> Payloads(e)]

\* the payloads a dict handed to decode holds: one container of each bundle
\* and of no bundle, content the engine or the mapper rejects, no container,
\* two containers
BatchPayloads(encoding) ==
  LET ax == TopText([ns |-> "a", name |-> "x"], encoding)
      by == TopText([ns |-> "b", name |-> "y"], encoding)
      cz == TopText([ns |-> "c", name |-> "z"], encoding)
      dw == TopText([ns |-> "d", name |-> "w"], encoding)
  IN
  {[tops |-> <<ax>>, content |-> c, pretty |-> FALSE] :
     c \in {"v1", "invalid", "unmappable"}}
  \cup {[tops |-> ts, content |-> "v1", pretty |-> FALSE] :
          ts \in {<<>>, <<cz>>, <<dw>>, <<ax, by>>}}

\* the dicts decode is called with, for each encoding of the provider
DecodeHolders == [e \in Encodings |-> Holders(BatchPayloads(e))]

\* the dicts encode is called with
EncodeHolders ==
  Holders({e \in Entities : e.val # "v2" /\ e.type.ns # "b"})

\* the process state a handler starts from
Frame ==
  [provider |-> provider, sysModules |-> sysModules, loads |-> loads,
   heap |-> heap, scans |-> scans, lookups |-> lookups,
   trace |-> <<>>, processed |-> <<>>, ns_ename |-> <<>>, mapped |-> <<>>,
   exc |-> NoExc, ret |-> <<>>]

\* the entities a finished decode hands to its caller
Returned(op, m) ==
  IF Raised(m) THEN <<>>
  ELSE IF op = "decode" THEN <<[ref |-> m.ret, val |-> m.heap[m.ret].val]>>
  ELSE IF op = "decode_dict"
  THEN LET InDict(k) == k \in DOMAIN m.ret
           ks == SelectSeq(m.processed, InDict)
       IN
       [i \in 1..Len(ks) |-> [ref |-> m.ret[ks[i]], val |-> m.heap[m.ret[ks[i]]].val]]
  ELSE <<>>

\* the handler has run to its return or raise: m is the process state it leaves
Finish(op, arg, pretty, m) ==
  /\ provider' = m.provider
  /\ sysModules' = m.sysModules
  /\ loads' = m.loads
  /\ heap' = m.heap
  /\ scans' = m.scans
  /\ lookups' = m.lookups
  /\ handed' = handed \o Returned(op, m)
  /\ calls' = calls + 1
  /\ pc' = "returned"
  /\ last' = [op |-> op, arg |-> arg, pretty |-> pretty, exc |-> m.exc,
              ret |-> IF Raised(m) THEN <<>> ELSE m.ret,
              trace |-> m.trace, processed |-> m.processed,
              ns_ename |-> m.ns_ename, mapped |-> m.mapped,
              before |-> Frame]

Init ==
  /\ provider \in [encoding : Encodings, schemas : {{}}]
  /\ sysModules = {}
  /\ loads = [p \in PackageNames |-> 0]
  /\ heap = InitHeap
  /\ scans = 0
  /\ lookups = 0
  /\ handed = <<>>
  /\ calls = 0
  /\ pc = "idle"
  /\ last = NoCall

\* decode(provider, payload) with one payload
Decode ==
  /\ pc = "idle" /\ calls < MaxCalls
  /\ \E payload \in DecodeInputs[provider.encoding] :
       \E m \in {_decode(Frame, payload)} : Finish("decode", payload, FALSE, m)

\* decode(provider, payload_holder) with a dict of payloads
DecodeDict ==
  /\ pc = "idle" /\ calls < MaxCalls
  /\ \E holder \in DecodeHolders[provider.encoding] :
       \E m \in {decode_dict(Frame, holder)} :
         Finish("decode_dict", holder, FALSE, m)

\* encode(provider, entity, pretty) with one entity
Encode ==
  /\ pc = "idle" /\ calls < MaxCalls
  /\ \E entity \in Entities, pretty \in BOOLEAN :
       \E m \in {_encode(Frame, entity, pretty)} :
         Finish("encode", entity, pretty, m)

\* encode(provider, entity_holder, pretty) with a dict of entities
EncodeDict ==
  /\ pc = "idle" /\ calls < MaxCalls
  /\ \E holder \in EncodeHolders, pretty \in BOOLEAN :
       \E m \in {encode_dict(Frame, holder, pretty)} :
         Finish("encode_dict", holder, pretty, m)

\* the caller takes the outcome of the call and goes on
Return ==
  /\ pc = "returned"
  /\ pc' = "idle"
  /\ last' = NoCall
  /\ UNCHANGED <<provider, sysModules, loads, heap, scans, lookups, handed, calls>>

Next == Decode \/ DecodeDict \/ Encode \/ EncodeDict \/ Return

Spec == Init /\ [][Next]_vars

\* ----------------------------------------------------------------- claims
PayloadError == [type |-> "YPYServiceProviderError", msg |-> <<"_PAYLOAD_ERROR_MSG">>]

\* C1: a single-payload decode of a payload with zero top-level containers,
\* or with two or more, ends by raising the payload-structure error (the
\* service error with the 'one entity per payload' message) and no other.
C1_NotOneContainerRaisesPayloadError ==
  (last.op = "decode" /\ Len(last.arg.tops) # 1) => last.exc = PayloadError

\* C2: a decode whose sniffed (namespace, local_name) pair is in the
\* ENTITY_LOOKUP of no installed package raises the entity-not-found service
\* error, whose message names the pair, and no other error.
C2_UnknownPairRaisesEntityNotFound ==
  (/\ last.op = "decode"
   /\ last.ns_ename # <<>>
   /\ \A p \in PackageNames : last.ns_ename \notin ENTITY_LOOKUP_KEYS(p))
  => /\ last.exc.type = "YPYServiceProviderError"
     /\ last.exc.msg = <<"_ENTITY_ERROR_MSG">> \o last.ns_ename[1] \o last.ns_ename[2]

\* C5: no failure of the native engine reaches the caller raw, on the encode
\* path or on the decode path: each arrives as the service error.
C5_NoRawEngineError ==
  last.op # "none" => last.exc.type # "EngineError"

\* C9: for a JSON payload whose first top-level key holds at least one colon,
\* the sniff returns, without error, the text before the first colon as the
\* namespace and all the text after it as the local name.
C9_JsonKeySplitAtFirstColon ==
  (/\ last.op = "decode"
   /\ last.before.provider.encoding = "JSON"
   /\ Len(last.arg.tops) >= 1
   /\ Find(last.arg.tops[1], ":", 1) > 0)
  => LET key == last.arg.tops[1]
         i == Find(key, ":", 1)
     IN /\ last.exc.type \notin {"ValueError", "IndexError"}
        /\ last.ns_ename = <<SubSeq(key, 1, i - 1), SubSeq(key, i + 1, Len(key))>>

\* the single-item call for the i-th item of the dict of the last call, made
\* from the process state the dict call started in
SingleCall(i) ==
  IF last.op = "decode_dict" THEN _decode(last.before, last.arg[i].value)
  ELSE _encode(last.before, last.arg[i].value, last.pretty)

HolderKeySet(holder) == {holder[i].key : i \in 1..Len(holder)}

\* C3: encode of a dict, each of whose single encodes succeeds, returns a dict
\* with exactly the same keys, the value at each key being the result of the
\* single-object encode of that key's object; every object's own bundle is
\* resolved, so one dict can hold objects of different bundles.
C3_EncodeDictKeysAndValues ==
  (/\ last.op = "encode_dict"
   /\ \A i \in 1..Len(last.arg) : ~Raised(SingleCall(i)))
  => /\ last.exc = NoExc
     /\ DOMAIN last.ret = HolderKeySet(last.arg)
     /\ \A i \in 1..Len(last.arg) : last.ret[last.arg[i].key] = SingleCall(i).ret
     /\ provider.schemas =
          last.before.provider.schemas
          \cup {BUNDLE_NAME(last.arg[i].value.type.pkg) : i \in 1..Len(last.arg)}

C3_Witness ==
  /\ last.op = "encode_dict"
  /\ Len(last.arg) = 2
  /\ last.exc = NoExc
  /\ last.arg[1].value.type.pkg # last.arg[2].value.type.pkg
  /\ last.before.provider.schemas = {}

\* C4: encode and decode of a dict are fail-fast: when the single-item call of
\* some key fails, the dict call ends with the failure of the first such key,
\* returns no mapping, and processes no key after the failing one.
C4_DictFailFast ==
  (/\ last.op \in {"decode_dict", "encode_dict"}
   /\ \E i \in 1..Len(last.arg) : Raised(SingleCall(i)))
  => LET f == CHOOSE i \in 1..Len(last.arg) :
                /\ Raised(SingleCall(i))
                /\ \A j \in 1..(i - 1) : ~Raised(SingleCall(j))
     IN /\ last.exc = SingleCall(f).exc
        /\ last.ret = <<>>
        /\ last.processed = [j \in 1..f |-> last.arg[j].key]

C4_Witness ==
  /\ last.op = "decode_dict"
  /\ Len(last.arg) = 2
  /\ Raised(SingleCall(1))
  /\ ~Raised(SingleCall(2))
  /\ last.exc # NoExc

\* C6 as claimed: the installed packages are enumerated during the first
\* lookup only; no later lookup enumerates them.
C6_EnumeratedByFirstLookupOnly == scans <= 1

\* C6 as amended: every lookup enumerates the installed packages anew (there
\* is no cached registry); only the loading of a package's namespace-index
\* module happens once per process, later lookups reusing the loaded module.
C6_EveryLookupEnumerates ==
  /\ scans = lookups
  /\ \A p \in PackageNames : loads[p] <= 1

C6_Witness ==
  /\ lookups >= 2
  /\ scans >= 2
  /\ loads["pkgA"] = 1

\* C7: every successful lookup returns a new clone of the prototype: the
\* entities decode has returned are pairwise distinct objects, none is a
\* registered prototype, populating one leaves every other as it was
\* returned, and the prototypes stay as registered.
C7_DecodedEntitiesAreFreshClones ==
  /\ \A i \in 1..Len(handed) :
       /\ handed[i].ref \notin ProtoRefs
       /\ heap[handed[i].ref].val = handed[i].val
  /\ \A i, j \in 1..Len(handed) : i # j => handed[i].ref # handed[j].ref
  /\ \A r \in ProtoRefs : heap[r] = InitHeap[r]

C7_Witness ==
  /\ Len(handed) >= 2
  /\ heap[handed[1].ref].type = heap[handed[2].ref].type
  /\ handed[1].val # handed[2].val

\* the calls of a single-payload decode, in the order of _decode
DecodeOrder ==
  <<"sniff", "lookup", "get_bundle_name", "get_yang_path", "initialize",
    "get_root_schema", "engine_decode", "check", "get_entity_from_data_node">>

IsPrefix(s, t) == Len(s) <= Len(t) /\ SubSeq(t, 1, Len(s)) = s

\* C8: a single-payload decode runs sniff, lookup, bundle resolution,
\* provider.initialize, provider.get_root_schema, engine decode, child-count
\* check, mapping, in this order; the mapper is invoked only after the engine
\* decode returned exactly one child, once, on that child and the looked-up
\* entity, and never when the check fails.
C8_DecodeStepOrder ==
  last.op = "decode" =>
    /\ IsPrefix(last.trace, DecodeOrder)
    /\ last.exc = NoExc => last.trace = DecodeOrder
    /\ Len(last.mapped) <= 1
    /\ Len(last.mapped) = 1 =>
         /\ Len(last.arg.tops) = 1
         /\ last.mapped[1].node =
              [text |-> last.arg.tops[1], content |-> last.arg.content]
         /\ last.mapped[1].entity = Len(last.before.heap) + 1
         /\ Len(last.trace) = Len(DecodeOrder)
    /\ last.exc = PayloadError => last.mapped = <<>>

C8_Witness ==
  /\ last.op = "decode"
  /\ last.exc = NoExc
  /\ Len(last.mapped) = 1
  /\ last.trace = DecodeOrder

\* the number of tokens d in s
Count(s, d) == Cardinality({i \in 1..Len(s) : s[i] = d})

\* C9 as amended: for a JSON payload the sniff takes the first top-level key
\* and splits it at every colon: for a key with exactly one colon the
\* namespace is the text before the colon and the local name the text after
\* it, returned without error; for a key with two or more colons the sniff
\* raises ValueError.
C9_JsonKeyWithOneColon ==
  (/\ last.op = "decode"
   /\ last.before.provider.encoding = "JSON"
   /\ Len(last.arg.tops) >= 1
   /\ Count(last.arg.tops[1], ":") >= 1)
  => LET key == last.arg.tops[1]
         i == Find(key, ":", 1)
     IN IF Count(key, ":") = 1
        THEN /\ last.exc.type \notin {"ValueError", "IndexError"}
             /\ last.ns_ename = <<SubSeq(key, 1, i - 1), SubSeq(key, i + 1, Len(key))>>
        ELSE /\ last.exc.type = "ValueError"
             /\ last.trace = <<"sniff">>

C9_Witness ==
  /\ last.op = "decode"
  /\ last.before.provider.encoding = "JSON"
  /\ Len(last.arg.tops) >= 1
  /\ Count(last.arg.tops[1], ":") = 1
  /\ last.ns_ename = << <<"a">>, <<"x">> >>

\* C10: a single-payload decode that fails in the sniff or in the lookup has
\* called neither provider.initialize nor provider.get_root_schema nor the
\* engine decode nor the mapper, and leaves the provider as it was; a decode
\* that fails the child-count check has initialized the provider for the
\* bundle of the sniffed entity, and that stays after the error.
C10_ProviderFrameOfFailedDecode ==
  last.op = "decode" =>
    /\ last.exc.type \in {"ParseError", "IndexError", "ValueError", "NameError"} =>
         /\ provider = last.before.provider
         /\ \A k \in 1..Len(last.trace) : last.trace[k] \in {"sniff", "lookup"}
         /\ last.mapped = <<>>
    /\ last.exc = PayloadError =>
         /\ \E k \in 1..Len(last.trace) : last.trace[k] = "initialize"
         /\ \E t \in Types :
              /\ last.ns_ename = << <<t.ns>>, <<t.name>> >>
              /\ provider.schemas = last.before.provider.schemas \cup {BUNDLE_NAME(t.pkg)}

C10_Witness ==
  /\ last.op = "decode"
  /\ last.exc = PayloadError
  /\ last.before.provider.schemas = {}
  /\ provider.schemas = {"bundleA"}

====
